---- MODULE Spec2Model ----
(***************************************************************************)
(* pyblish_qml/host.py: the bridge between a host application and the QML  *)
(* GUI subprocess.  The process registry (_state), the pipeline callback   *)
(* registry, the dispatch wrapper, the host adapter chain and the          *)
(* show/publish/validate lifecycle are modelled as one state machine.      *)
(***************************************************************************)
EXTENDS Integers, Sequences, FiniteSets, TLC

(***************************************************************************)
(* Bounds of the model.                                                    *)
(***************************************************************************)
\* Servers (GUI subprocesses) constructed over a run.
MaxServers == 2
\* Registrations of one handler in the pipeline callback registry.
MaxReg == 2
\* Overlays (Splash widgets with their on_shown callback) alive at once.
MaxOverlays == 1

(***************************************************************************)
(* Values.                                                                 *)
(***************************************************************************)
\* The fixed order of install_host (host.py:255-260).
Adapters == <<"Maya", "Houdini", "Nuke", "NukeAssist", "Hiero", "NukeStudio">>

\* Host modules an adapter imports, and the launch flags read in nuke.rawArgs.
Modules == {"maya", "hdefereval", "nuke", "hiero"}
Flags == {"--hiero", "--studio", "--nukeassist"}

\* What the host process looks like to one install_host() call:
\*   mods      the importable host modules
\*   flags     nuke.rawArgs
\*   headless  the value of _is_headless()
\*   fail      a failure of the Maya adapter's own lookups: "environ" is
\*             os.environ["PYTHONPATH"] missing in _remove_googleapiclient,
\*             "window" is no top level widget named "MayaWindow"
HostEnvs ==
    [mods : SUBSET Modules, flags : SUBSET Flags, headless : BOOLEAN,
     fail : {"none", "environ", "window"}]

\* inspect.getargspec(wrapper): positional count, *args, **kwargs.
Signatures == [args : 0..2, varargs : BOOLEAN, keywords : BOOLEAN]

\* The signature of every adapter's threaded_wrapper(func, *args, **kwargs).
ThreadedSig == [args |-> 1, varargs |-> TRUE, keywords |-> TRUE]

\* The modal argument of show().
ModalArgs == {"None", "True", "False"}

\* os.environ.get("PYBLISH_QML_MODAL", False)
EnvValues == {"unset", "empty", "0", "1"}

\* The host environments of the lifecycle model: no supported host, and
\* Maya with and without a window.  Between them they produce every outcome
\* an adapter has: not this host, a failure before and after the wrapper is
\* registered, and success with and without a host window.
SessionEnvs ==
    {e \in HostEnvs :
        /\ e.flags = {}
        /\ e.mods \in {{}, {"maya"}}
        /\ e.fail # "none" => e.mods = {"maya"}}

ServerIds == 1..MaxServers
OverlayIds == 1..MaxOverlays

VARIABLES
    installed,        \* _state["installed"]
    currentServer,    \* _state["currentServer"]: a server id, 0 when absent
    currentProxy,     \* _state["currentProxy"]: the id of the server the
                      \* registered Proxy is bound to, 0 when absent
    dispatchWrapper,  \* _state["dispatchWrapper"]: "none" when absent, else
                      \* whose wrapper the registered _wrapper closes over
    vesselParent,     \* _state["vesselParent"]: "none" or the host's window
    callbacks,        \* pyblish callback registry: registrations of
                      \* _toggle_instance / _toggle_plugin per signal
    shownCallbacks,   \* overlays whose on_shown is registered for
                      \* "pyblishQmlShown"
    splashOpen,       \* overlays whose Splash widget is open
    ContextLabel,     \* settings.ContextLabel
    WindowTitle,      \* settings.WindowTitle
    constructed,      \* number of ipc.server.Server objects constructed
    alive,            \* servers whose subprocess is running
    modalOf,          \* server.modal of every server
    pc,               \* where the main thread is: "idle", "showing"
                      \* (host.py:153 in flight), "listening" (host.py:162)
    call,             \* the show() call in flight while pc is not "idle"
    ret,              \* outcome of the last call that ended
    hostEnv,          \* the host environment of SpecHost
    host              \* outcome of the last install_host() of SpecHost

vars ==
    <<installed, currentServer, currentProxy, dispatchWrapper, vesselParent,
      callbacks, shownCallbacks, splashOpen, ContextLabel, WindowTitle,
      constructed, alive, modalOf, pc, call, ret, hostEnv, host>>

(***************************************************************************)
(* The registry and the settings a handler reads and writes, as one        *)
(* record threaded through the calls a handler makes.  exc is the          *)
(* exception in flight ("none": the call returned).  trace, wrapped and    *)
(* labelled observe one install_host(): the adapters attempted, those that *)
(* registered a dispatch wrapper and those that set a label.               *)
(***************************************************************************)
Reg ==
    [installed |-> installed, currentServer |-> currentServer,
     currentProxy |-> currentProxy, dispatchWrapper |-> dispatchWrapper,
     vesselParent |-> vesselParent, callbacks |-> callbacks,
     ContextLabel |-> ContextLabel, WindowTitle |-> WindowTitle,
     exc |-> "none", trace |-> <<>>, wrapped |-> <<>>, labelled |-> <<>>]

Raise(R, e) == [R EXCEPT !.exc = e]

(***************************************************************************)
(* register_dispatch_wrapper, host.py:15-39.                               *)
(***************************************************************************)
\* SignatureMismatch looking at the positional count alone.
SignatureMismatchArityOnly(sig) == sig.args # 1

\* The any([...]) of host.py:24-26.
SignatureMismatch(sig) == sig.args # 1 \/ ~sig.varargs \/ ~sig.keywords

register_dispatch_wrapper(R, sig, who) ==
    IF SignatureMismatch(sig)
    THEN Raise(R, "TypeError")
    ELSE [R EXCEPT !.dispatchWrapper = who, !.wrapped = Append(@, who)]

\* deregister_dispatch_wrapper, host.py:42-43: dict.pop without default.
deregister_dispatch_wrapper(R) ==
    IF R.dispatchWrapper = "none"
    THEN Raise(R, "KeyError")
    ELSE [R EXCEPT !.dispatchWrapper = "none"]

(***************************************************************************)
(* The tail every adapter shares: the labels are set only while they are   *)
(* at their defaults (host.py:342-345, 363-366, ...).                      *)
(***************************************************************************)
SetLabels(R, who) ==
    LET setCtx == R.ContextLabel = "Default"
        setWin == R.WindowTitle = "Default"
    IN  [R EXCEPT !.ContextLabel = IF setCtx THEN who ELSE @,
                  !.WindowTitle = IF setWin THEN who ELSE @,
                  !.labelled = IF setCtx \/ setWin THEN Append(@, who) ELSE @]

\* _acquire_host_main_window, host.py:284-295, after aboutToQuit.connect:
\* without an application or an active window, app.aboutToQuit or
\* _window.parent() raises AttributeError.
_acquire_host_main_window(R, env, who) ==
    IF env.headless
    THEN Raise(R, "AttributeError")
    ELSE [R EXCEPT !.vesselParent = who]

\* The body the Houdini and Nuke family adapters share once the host is
\* detected: register the wrapper, hook quit, take the window, set labels.
InstallDetected(R, env, who) ==
    LET r1 == register_dispatch_wrapper(R, ThreadedSig, who)
        r2 == _acquire_host_main_window(r1, env, who)
    IN  IF r1.exc # "none" THEN r1
        ELSE IF r2.exc # "none" THEN r2
        ELSE SetLabels(r2, who)

\* host.py:316-345
_install_maya(R, env) ==
    IF "maya" \notin env.mods THEN Raise(R, "ImportError")
    ELSE IF env.fail = "environ" THEN Raise(R, "KeyError")
    ELSE LET r1 == register_dispatch_wrapper(R, ThreadedSig, "Maya")
         IN  IF r1.exc # "none" THEN r1
             ELSE IF env.headless THEN SetLabels(r1, "Maya")
             ELSE IF env.fail = "window" THEN Raise(r1, "KeyError")
             ELSE SetLabels([r1 EXCEPT !.vesselParent = "Maya"], "Maya")

\* host.py:348-366
_install_houdini(R, env) ==
    IF "hdefereval" \notin env.mods THEN Raise(R, "ImportError")
    ELSE InstallDetected(R, env, "Houdini")

\* host.py:369-395
_install_nuke(R, env) ==
    IF "nuke" \notin env.mods THEN Raise(R, "ImportError")
    ELSE IF \/ "--hiero" \in env.flags
            \/ "--studio" \in env.flags
            \/ "--nukeassist" \in env.flags
         THEN Raise(R, "ImportError")
    ELSE InstallDetected(R, env, "Nuke")

\* host.py:398-419
_install_nukeassist(R, env) ==
    IF "nuke" \notin env.mods THEN Raise(R, "ImportError")
    ELSE IF "--nukeassist" \notin env.flags THEN Raise(R, "ImportError")
    ELSE InstallDetected(R, env, "NukeAssist")

\* host.py:422-444
_install_hiero(R, env) ==
    IF "hiero" \notin env.mods \/ "nuke" \notin env.mods
    THEN Raise(R, "ImportError")
    ELSE IF "--hiero" \notin env.flags THEN Raise(R, "ImportError")
    ELSE InstallDetected(R, env, "Hiero")

\* host.py:447-468
_install_nukestudio(R, env) ==
    IF "nuke" \notin env.mods THEN Raise(R, "ImportError")
    ELSE IF "--studio" \notin env.flags THEN Raise(R, "ImportError")
    ELSE InstallDetected(R, env, "NukeStudio")

\* The call install() of the loop body, host.py:262.
CallAdapter(who, R, env) ==
    CASE who = "Maya" -> _install_maya(R, env)
      [] who = "Houdini" -> _install_houdini(R, env)
      [] who = "Nuke" -> _install_nuke(R, env)
      [] who = "NukeAssist" -> _install_nukeassist(R, env)
      [] who = "Hiero" -> _install_hiero(R, env)
      [] who = "NukeStudio" -> _install_nukestudio(R, env)

\* ChainContinues without the "else: break".
ChainContinuesAfterSuccess(r) == r.exc \in {"ImportError", "none"}

\* Whether the loop goes on to the next adapter after adapter i ended in r:
\* only "except ImportError: pass" does, "else: break" and any other
\* exception leave the loop (host.py:261-266).
ChainContinues(r) == r.exc = "ImportError"

\* The for loop of install_host from adapter i on, host.py:255-266.
RECURSIVE RunChain(_, _, _)
RunChain(i, R, env) ==
    IF i > Len(Adapters) THEN R
    ELSE LET who == Adapters[i]
             r == CallAdapter(who, [R EXCEPT !.trace = Append(@, who)], env)
         IN  IF ChainContinues(r)
             THEN RunChain(i + 1, [r EXCEPT !.exc = "none"], env)
             ELSE r

\* host.py:247-266
install_host(R, env) == RunChain(1, R, env)

(***************************************************************************)
(* The callback bridge.  pyblish.api.register_callback appends the handler *)
(* to the signal's list and deregister_callback removes one occurrence,    *)
(* raising when there is none.                                             *)
(***************************************************************************)
Signals == {"instanceToggled", "pluginToggled"}

\* host.py:197-199
install_callbacks(R) ==
    [R EXCEPT !.callbacks = [s \in Signals |-> @[s] + 1]]

\* host.py:202-204
uninstall_callbacks(R) ==
    IF R.callbacks["instanceToggled"] = 0 THEN Raise(R, "ValueError")
    ELSE LET r1 == [R EXCEPT !.callbacks["instanceToggled"] = @ - 1]
         IN  IF r1.callbacks["pluginToggled"] = 0 THEN Raise(r1, "ValueError")
             ELSE [r1 EXCEPT !.callbacks["pluginToggled"] = @ - 1]

\* host.py:73-76
uninstall(R) == uninstall_callbacks(R)

\* host.py:54-70
install(R, env) ==
    LET r0 == IF R.installed THEN uninstall(R) ELSE R
        r1 == install_callbacks(r0)
        r2 == install_host(r1, env)
    IN  IF r0.exc # "none" THEN r0
        ELSE IF r2.exc # "none" THEN r2
        ELSE [r2 EXCEPT !.installed = TRUE]

(***************************************************************************)
(* The collaborators in pyblish_qml.ipc.                                   *)
(***************************************************************************)
\* A Proxy method that talks to the subprocess raises IOError once the
\* subprocess is gone.
ProxyRaises(id) == id \notin alive

\* Proxy.kill() on a dead subprocess may fail or pass unnoticed.
ProxyKillOutcomes(id) == IF id \in alive THEN {"killed"} ELSE {"killed", "raised"}

\* Popen.kill() on a subprocess that is gone raises OSError or passes
\* unnoticed, depending on the platform and on whether it was reaped.
PopenKillOutcomes(id) ==
    IF id \in alive THEN {"killed"} ELSE {"killed", "OSError"}

(***************************************************************************)
(* Outcome records.                                                        *)
(***************************************************************************)
\* The outcome of a call:
\*   op        the function called, "dispatch" for a call through _wrapper
\*   exc       the exception it raised, "none" when it returned
\*   delegated the exception delegation to the registered pair raised; for
\*             the quit hook, the exception its try block raised
\*   stale     the server whose entry the call popped as stale, 0 if none
\*   path      the branch show() took: "reuse" (host.py:107-115 returned)
\*             or "start" (host.py:121 was reached)
\*   made      the Server the call constructed, 0 if none
\*   calls     the Proxy methods invoked on the registered pair
\*   returned  the server returned, 0 for None
\*   modalArg  the modal argument show() was called with
\*   modal     the modality show() resolved
\*   again     install() called right after another install()
\*   raised    the callable behind _wrapper raised E
\*   kills     the calls of Proxy.kill that _wrapper made; for the quit
\*             hook, its calls of popen.kill
\*   sig       the signature of the wrapper passed to
\*             register_dispatch_wrapper
\*   headless  the value of _is_headless() that show() read at host.py:121
\*   overlay   the Splash that show() constructed and left open with its
\*             on_shown registered, 0 if none
\*   shown     show() called on_shown itself (host.py:150)
NoSig == [args |-> 0, varargs |-> FALSE, keywords |-> FALSE]

NoRet ==
    [op |-> "none", exc |-> "none", delegated |-> "none", stale |-> 0,
     path |-> "none", made |-> 0, calls |-> <<>>, returned |-> 0,
     modalArg |-> "None", modal |-> FALSE, again |-> FALSE, raised |-> FALSE, kills |-> 0,
     sig |-> NoSig, headless |-> FALSE, overlay |-> 0, shown |-> FALSE]

\* The record of a call that starts now.
NewRet(op) ==
    [NoRet EXCEPT !.op = op, !.again = (op = "install" /\ ret.op = "install")]

\* The call under observation: the show() in flight, else the last one
\* that ended.
Cur == IF pc = "idle" THEN ret ELSE call

NoEnv == [mods |-> {}, flags |-> {}, headless |-> FALSE, fail |-> "none"]

NoHost == [called |-> FALSE, exc |-> "none", trace |-> <<>>, wrapped |-> <<>>,
           labelled |-> <<>>, preWrapper |-> "none", preContext |-> "Default",
           preWindow |-> "Default"]

\* Writes the registry and the settings back from a handler's record.
Commit(R) ==
    /\ installed' = R.installed
    /\ currentServer' = R.currentServer
    /\ currentProxy' = R.currentProxy
    /\ dispatchWrapper' = R.dispatchWrapper
    /\ vesselParent' = R.vesselParent
    /\ callbacks' = R.callbacks
    /\ ContextLabel' = R.ContextLabel
    /\ WindowTitle' = R.WindowTitle

\* The callback registry has room for one more registration of each handler.
RoomToRegister == \A s \in Signals : callbacks[s] < MaxReg

Init ==
    /\ installed = FALSE
    /\ currentServer = 0
    /\ currentProxy = 0
    /\ dispatchWrapper = "none"
    /\ vesselParent = "none"
    /\ callbacks = [s \in Signals |-> 0]
    /\ shownCallbacks = {}
    /\ splashOpen = {}
    /\ ContextLabel = "Default"
    /\ WindowTitle = "Default"
    /\ constructed = 0
    /\ alive = {}
    /\ modalOf = [i \in ServerIds |-> FALSE]
    /\ pc = "idle"
    /\ call = NoRet
    /\ ret = NoRet
    /\ hostEnv = NoEnv
    /\ host = NoHost

(***************************************************************************)
(* install() and uninstall() called by the host, host.py:54-76.            *)
(***************************************************************************)
Install ==
    /\ pc = "idle"
    /\ RoomToRegister
    /\ \E env \in SessionEnvs :
        LET r == install(Reg, env)
        IN  /\ Commit(r)
            /\ ret' = [NewRet("install") EXCEPT !.exc = r.exc]
    /\ UNCHANGED <<shownCallbacks, splashOpen, constructed, alive, modalOf,
                   pc, call, hostEnv, host>>

Uninstall ==
    /\ pc = "idle"
    /\ LET r == uninstall(Reg)
       IN  /\ Commit(r)
           /\ ret' = [NewRet("uninstall") EXCEPT !.exc = r.exc]
    /\ UNCHANGED <<shownCallbacks, splashOpen, constructed, alive, modalOf,
                   pc, call, hostEnv, host>>

(***************************************************************************)
(* register_dispatch_wrapper / deregister_dispatch_wrapper called by the   *)
(* host with a wrapper of its own, host.py:15-43.  These two are steps of  *)
(* SpecWrapper; in Spec the wrapper is the one a host adapter registers.   *)
(***************************************************************************)
RegisterDispatchWrapper ==
    /\ pc = "idle"
    /\ \E sig \in Signatures :
        LET r == register_dispatch_wrapper(Reg, sig, "user")
        IN  /\ Commit(r)
            /\ ret' = [NewRet("register") EXCEPT !.exc = r.exc, !.sig = sig]
    /\ UNCHANGED <<shownCallbacks, splashOpen, constructed, alive, modalOf,
                   pc, call, hostEnv, host>>

DeregisterDispatchWrapper ==
    /\ pc = "idle"
    /\ LET r == deregister_dispatch_wrapper(Reg)
       IN  /\ Commit(r)
           /\ ret' = [NewRet("deregister") EXCEPT !.exc = r.exc]
    /\ UNCHANGED <<shownCallbacks, splashOpen, constructed, alive, modalOf,
                   pc, call, hostEnv, host>>

(***************************************************************************)
(* Delegation to the registered pair: the try blocks of host.py:111-115,   *)
(* 172-175 and 187-190.  The lookup of currentProxy raises KeyError when   *)
(* the entry is absent; a dead subprocess raises IOError, in update or in  *)
(* the method (failAt).  calls lists the Proxy methods invoked.            *)
(***************************************************************************)
Delegate(R, method, failAt) ==
    IF R.currentProxy = 0
    THEN [exc |-> "KeyError", calls |-> <<>>]
    ELSE IF ~ProxyRaises(R.currentProxy)
    THEN [exc |-> "none", calls |-> <<"update", method>>]
    ELSE IF failAt = "update"
    THEN [exc |-> "IOError", calls |-> <<"update">>]
    ELSE [exc |-> "IOError", calls |-> <<"update", method>>]

\* HasServer taking a server to be registered always.
HasServerAlways(R) == TRUE

\* _state.get("currentServer") of host.py:106, 169 and 184.
HasServer(R) == R.currentServer # 0

\* IsStaleError catching KeyError alone.
IsStaleErrorKeyOnly(e) == e = "KeyError"

\* The except clause of host.py:117, 177 and 192.
IsStaleError(e) == e \in {"IOError", "KeyError"}

\* PopStale leaving the entry in place.
PopStaleKeeps(R) == R

\* _state.pop("currentServer"), host.py:119, 179 and 194.
PopStale(R) == [R EXCEPT !.currentServer = 0]

\* ReturnsExisting without the return of host.py:115.
ReturnsExistingNever(hasServer, d) == FALSE

\* Whether show() returns from the existing-server branch (host.py:115)
\* instead of going on to start a session.
ReturnsExisting(hasServer, d) == hasServer /\ d.exc = "none"

\* ModalOf taking the environment's value whatever the argument.
ModalOfEnvWins(modalArg, envModal) == envModal \notin {"unset", "empty"}

\* host.py:98-100
ModalOf(modalArg, envModal) ==
    IF modalArg = "None"
    THEN envModal \notin {"unset", "empty"}
    ELSE modalArg = "True"

\* The modal attribute is kept for the registered server and the one under
\* construction: once a server's entry is popped host.py never reads the
\* attribute again.
Forget(m, id) == IF id = 0 THEN m ELSE [m EXCEPT ![id] = FALSE]

\* An overlay id not in use.
FreeOverlays == OverlayIds \ (shownCallbacks \cup splashOpen)

(***************************************************************************)
(* publish() and validate(), host.py:167-194.                              *)
(***************************************************************************)
Command(op, method, failAt) ==
    LET d == Delegate(Reg, method, failAt)
    IN  /\ pc = "idle"
        /\ IF ~HasServer(Reg)
           THEN /\ ret' = NewRet(op)
                /\ UNCHANGED <<currentServer, modalOf>>
           ELSE /\ ret' = [NewRet(op) EXCEPT
                            !.calls = d.calls,
                            !.delegated = d.exc,
                            !.exc = IF IsStaleError(d.exc) THEN "none"
                                    ELSE d.exc,
                            !.stale = IF IsStaleError(d.exc)
                                      THEN currentServer ELSE 0]
                /\ currentServer' = IF IsStaleError(d.exc)
                                    THEN PopStale(Reg).currentServer
                                    ELSE currentServer
                /\ modalOf' = IF IsStaleError(d.exc)
                              THEN Forget(modalOf, currentServer)
                              ELSE modalOf
        /\ UNCHANGED <<installed, currentProxy, dispatchWrapper, vesselParent,
                       callbacks, shownCallbacks, splashOpen, ContextLabel,
                       WindowTitle, constructed, alive, pc, call, hostEnv,
                       host>>

Publish ==
    \E failAt \in {"update", "publish"} : Command("publish", "publish", failAt)

Validate ==
    \E failAt \in {"update", "validate"} :
        Command("validate", "validate", failAt)

(***************************************************************************)
(* show(), host.py:90-164, up to the call of proxy.show at line 153.       *)
(*   r         the registry after the automatic install                    *)
(*   serverOk  Service() and Server() construct (host.py:145-146)          *)
(*   proxyOk   Proxy() constructs (host.py:152)                            *)
(***************************************************************************)
StartSession(r, rt, modal, headless) ==
    \E serverOk \in BOOLEAN :
    \E proxyOk \in IF serverOk THEN BOOLEAN ELSE {FALSE} :
    LET o == IF headless THEN 0 ELSE CHOOSE x \in FreeOverlays : TRUE
        id == constructed + 1
        rh == [rt EXCEPT !.headless = headless]
        rs == [rh EXCEPT !.made = id, !.overlay = o]
    IN  /\ Commit(r)
        /\ IF ~serverOk
           THEN \* on_shown() closes the overlay and deregisters itself
                /\ ret' = [rh EXCEPT !.shown = TRUE]
                /\ UNCHANGED <<shownCallbacks, splashOpen, constructed, alive,
                               pc, call>>
                /\ modalOf' = Forget(modalOf, rt.stale)
           ELSE /\ constructed < MaxServers
                /\ headless \/ FreeOverlays # {}
                /\ constructed' = id
                /\ alive' = alive \cup {id}
                /\ modalOf' = IF proxyOk
                              THEN [Forget(modalOf, rt.stale) EXCEPT
                                        ![id] = modal]
                              ELSE Forget(modalOf, rt.stale)
                /\ shownCallbacks' = IF headless THEN shownCallbacks
                                     ELSE shownCallbacks \cup {o}
                /\ splashOpen' = IF headless THEN splashOpen
                                 ELSE splashOpen \cup {o}
                /\ IF proxyOk
                   THEN /\ pc' = "showing"
                        /\ call' = rs
                        /\ ret' = NoRet
                   ELSE /\ pc' = "idle"
                        /\ ret' = [rs EXCEPT !.exc = "ProxyError"]
                        /\ UNCHANGED call

ShowCall(modalArgs, headlessValues) ==
    /\ pc = "idle"
    /\ \E modalArg \in modalArgs, headless \in headlessValues :
       \E modal \in {ModalOf(modalArg, e) : e \in EnvValues} :
       \E env \in IF installed THEN {NoEnv}
                  ELSE {e \in SessionEnvs : e.headless = headless} :
       \E failAt \in IF currentServer # 0 /\ currentProxy # 0
                        /\ ProxyRaises(currentProxy)
                     THEN {"update", "show"} ELSE {"show"} :
        LET r1 == IF installed THEN Reg ELSE install(Reg, env)
            hasServer == HasServer(r1)
            d == Delegate(r1, "show", failAt)
            rt == [NewRet("show") EXCEPT !.modalArg = modalArg,
                                         !.modal = modal]
        IN  /\ installed \/ RoomToRegister
            /\ IF r1.exc # "none"
               THEN \* the automatic install raised
                    /\ Commit(r1)
                    /\ ret' = [rt EXCEPT !.exc = r1.exc]
                    /\ UNCHANGED <<shownCallbacks, splashOpen, constructed,
                                   alive, modalOf, pc, call>>
               ELSE IF ReturnsExisting(hasServer, d)
               THEN /\ Commit(r1)
                    /\ modalOf' = [modalOf EXCEPT ![currentServer] = modal]
                    /\ ret' = [rt EXCEPT !.calls = d.calls, !.path = "reuse",
                                         !.returned = currentServer]
                    /\ UNCHANGED <<shownCallbacks, splashOpen, constructed,
                                   alive, pc, call>>
               ELSE IF hasServer /\ d.exc # "none" /\ ~IsStaleError(d.exc)
               THEN \* not an exception host.py:117 catches
                    /\ Commit(r1)
                    /\ modalOf' = [modalOf EXCEPT ![currentServer] = modal]
                    /\ ret' = [rt EXCEPT !.calls = d.calls,
                                         !.delegated = d.exc, !.exc = d.exc]
                    /\ UNCHANGED <<shownCallbacks, splashOpen, constructed,
                                   alive, pc, call>>
               ELSE IF hasServer /\ IsStaleError(d.exc)
               THEN StartSession(
                        PopStale(r1),
                        [rt EXCEPT !.calls = d.calls, !.delegated = d.exc,
                                   !.stale = r1.currentServer,
                                   !.path = "start"],
                        modal, headless)
               ELSE StartSession(r1, [rt EXCEPT !.path = "start"],
                                 modal, headless)
    /\ UNCHANGED <<hostEnv, host>>

\* In the lifecycle model show() is called without a modal argument, under
\* every value of PYBLISH_QML_MODAL, in a host with and without a window.
Show == ShowCall({"None"}, BOOLEAN)

\* StorePair storing nothing.
StorePairNot(R, id) == R

\* host.py:156-157
StorePair(R, id) == [R EXCEPT !.currentServer = id, !.currentProxy = id]

\* proxy.show(config) of host.py:153 returns or raises; on return the pair
\* is stored (host.py:156-157) and listen() is entered (host.py:162).
ShowStores ==
    /\ pc = "showing"
    /\ IF ProxyRaises(call.made)
       THEN /\ pc' = "idle"
            /\ ret' = [call EXCEPT !.exc = "IOError"]
            /\ call' = NoRet
            /\ modalOf' = Forget(modalOf, call.made)
            /\ UNCHANGED <<currentServer, currentProxy>>
       ELSE /\ pc' = "listening"
            /\ currentServer' = StorePair(Reg, call.made).currentServer
            /\ currentProxy' = StorePair(Reg, call.made).currentProxy
            /\ UNCHANGED <<call, ret, modalOf>>
    /\ UNCHANGED <<installed, dispatchWrapper, vesselParent, callbacks,
                   shownCallbacks, splashOpen, ContextLabel, WindowTitle,
                   constructed, alive, hostEnv, host>>

\* server.listen() returns and show() returns the server, host.py:162-164.
ListenReturns ==
    /\ pc = "listening"
    /\ pc' = "idle"
    /\ ret' = [call EXCEPT !.returned = call.made]
    /\ call' = NoRet
    /\ UNCHANGED <<installed, currentServer, currentProxy, dispatchWrapper,
                   vesselParent, callbacks, shownCallbacks, splashOpen,
                   ContextLabel, WindowTitle, constructed, alive, modalOf,
                   hostEnv, host>>

(***************************************************************************)
(* A call through the registered _wrapper, host.py:29-37.                  *)
(*   raises  the wrapped callable raises E                                 *)
(***************************************************************************)
KillOnException(raises, killOutcome) ==
    IF ~raises
    THEN [NoRet EXCEPT !.op = "dispatch"]
    ELSE IF currentProxy = 0
    THEN [NoRet EXCEPT !.op = "dispatch", !.raised = TRUE,
                       !.exc = "KeyError"]
    ELSE IF killOutcome = "raised"
    THEN [NoRet EXCEPT !.op = "dispatch", !.raised = TRUE, !.kills = 1,
                       !.exc = "KillError"]
    ELSE [NoRet EXCEPT !.op = "dispatch", !.raised = TRUE, !.kills = 1,
                       !.exc = "E"]

Dispatch ==
    /\ dispatchWrapper # "none"
    /\ \E raises \in BOOLEAN :
       \E killOutcome \in IF raises /\ currentProxy # 0
                          THEN ProxyKillOutcomes(currentProxy)
                          ELSE {"none"} :
        /\ ret' = KillOnException(raises, killOutcome)
        /\ alive' = IF raises /\ currentProxy # 0
                    THEN alive \ {currentProxy} ELSE alive
    /\ UNCHANGED <<installed, currentServer, currentProxy, dispatchWrapper,
                   vesselParent, callbacks, shownCallbacks, splashOpen,
                   ContextLabel, WindowTitle, constructed, modalOf, pc, call,
                   hostEnv, host>>

(***************************************************************************)
(* The host application is about to quit: _on_application_quit,            *)
(* host.py:269-281.                                                        *)
(***************************************************************************)
\* QuitSwallows with the "except OSError" clause missing.
QuitSwallowsKeyOnly(e) == e = "KeyError"

\* The except clauses of host.py:275 and 279.
QuitSwallows(e) == e \in {"KeyError", "OSError"}

\* The exception the try block of host.py:272-273 ends with.
QuitTry(killOutcome) ==
    IF currentServer = 0 THEN "KeyError"
    ELSE IF killOutcome = "OSError" THEN "OSError"
    ELSE "none"

OnApplicationQuit ==
    /\ \E killOutcome \in IF currentServer = 0 THEN {"none"}
                          ELSE PopenKillOutcomes(currentServer) :
        LET e == QuitTry(killOutcome)
        IN  /\ ret' = [NoRet EXCEPT
                          !.op = "quit",
                          !.delegated = e,
                          !.kills = IF currentServer = 0 THEN 0 ELSE 1,
                          !.exc = IF QuitSwallows(e) THEN "none" ELSE e]
            /\ alive' = alive \ {currentServer}
    /\ UNCHANGED <<installed, currentServer, currentProxy, dispatchWrapper,
                   vesselParent, callbacks, shownCallbacks, splashOpen,
                   ContextLabel, WindowTitle, constructed, modalOf, pc, call,
                   hostEnv, host>>

(***************************************************************************)
(* The GUI reports that it is shown: every registered on_shown runs,       *)
(* host.py:128-136.                                                        *)
(***************************************************************************)
EmitShown ==
    /\ shownCallbacks # {}
    /\ splashOpen' = splashOpen \ shownCallbacks
    /\ shownCallbacks' = {}
    /\ UNCHANGED <<installed, currentServer, currentProxy, dispatchWrapper,
                   vesselParent, callbacks, ContextLabel, WindowTitle,
                   constructed, alive, modalOf, pc, call, ret, hostEnv,
                   host>>

\* on_shown of the overlay of the show() under observation is invoked once
\* more, after it has run: splash.close() raises the RuntimeError that
\* host.py:132 swallows, and deregister_callback (host.py:136) does not find
\* the callback.
OnShownAgain ==
    /\ Cur.op = "show"
    /\ Cur.overlay # 0
    /\ Cur.overlay \notin shownCallbacks
    /\ ret' = [NoRet EXCEPT
                  !.op = "on_shown",
                  !.overlay = Cur.overlay,
                  !.delegated = IF Cur.overlay \in splashOpen THEN "none"
                                ELSE "RuntimeError",
                  !.exc = "ValueError"]
    /\ splashOpen' = splashOpen \ {Cur.overlay}
    /\ UNCHANGED <<installed, currentServer, currentProxy, dispatchWrapper,
                   vesselParent, callbacks, shownCallbacks, ContextLabel,
                   WindowTitle, constructed, alive, modalOf, pc, call,
                   hostEnv, host>>

\* The GUI subprocess of a server ends.
SubprocessDies ==
    /\ \E id \in alive : alive' = alive \ {id}
    /\ UNCHANGED <<installed, currentServer, currentProxy, dispatchWrapper,
                   vesselParent, callbacks, shownCallbacks, splashOpen,
                   ContextLabel, WindowTitle, constructed, modalOf, pc, call,
                   ret, hostEnv, host>>

Next ==
    \/ Install
    \/ Uninstall
    \/ Show
    \/ ShowStores
    \/ ListenReturns
    \/ Publish
    \/ Validate
    \/ Dispatch
    \/ EmitShown
    \/ OnShownAgain
    \/ SubprocessDies
    \/ OnApplicationQuit

Spec == Init /\ [][Next]_vars

(***************************************************************************)
(* The host adapter chain on its own: install_host() under every host      *)
(* environment, with the labels at their defaults or customised before.    *)
(***************************************************************************)
InitHost ==
    /\ installed = FALSE
    /\ currentServer = 0
    /\ currentProxy = 0
    /\ dispatchWrapper = "none"
    /\ vesselParent = "none"
    /\ callbacks = [s \in Signals |-> 0]
    /\ shownCallbacks = {}
    /\ splashOpen = {}
    /\ ContextLabel \in {"Default", "Custom"}
    /\ WindowTitle \in {"Default", "Custom"}
    /\ constructed = 0
    /\ alive = {}
    /\ modalOf = [i \in ServerIds |-> FALSE]
    /\ pc = "idle"
    /\ call = NoRet
    /\ ret = NoRet
    /\ hostEnv \in HostEnvs
    /\ host = NoHost

InstallHost ==
    /\ LET r == install_host(Reg, hostEnv)
       IN  /\ Commit(r)
           /\ host' = [called |-> TRUE, exc |-> r.exc, trace |-> r.trace,
                       wrapped |-> r.wrapped, labelled |-> r.labelled,
                       preWrapper |-> dispatchWrapper,
                       preContext |-> ContextLabel,
                       preWindow |-> WindowTitle]
    /\ UNCHANGED <<shownCallbacks, splashOpen, constructed, alive, modalOf,
                   pc, call, ret, hostEnv>>

NextHost == InstallHost

SpecHost == InitHost /\ [][NextHost]_vars

(***************************************************************************)
(* The dispatch wrapper registry on its own: wrappers of every signature   *)
(* are registered, between install(), uninstall(), deregistration and      *)
(* calls through the registered wrapper.                                   *)
(***************************************************************************)
NextWrapper ==
    \/ RegisterDispatchWrapper
    \/ DeregisterDispatchWrapper
    \/ Install
    \/ Uninstall
    \/ Dispatch

SpecWrapper == Init /\ [][NextWrapper]_vars

(***************************************************************************)
(* The lifecycle in a headless process: show() is called with every modal  *)
(* argument under every value of PYBLISH_QML_MODAL.                        *)
(***************************************************************************)
ShowHeadless == ShowCall(ModalArgs, {TRUE})

NextHeadless ==
    \/ ShowHeadless
    \/ ShowStores
    \/ ListenReturns
    \/ Publish
    \/ SubprocessDies

SpecHeadless == Init /\ [][NextHeadless]_vars

(***************************************************************************)
(* Properties.                                                             *)
(***************************************************************************)
StaleErrors == {"IOError", "KeyError"}

\* C1: in every reachable state currentServer and currentProxy are both
\* present or both absent.
C1_PairedRegistry == (currentServer # 0) <=> (currentProxy # 0)

C4_HealthyReuse ==
    [][(pc = "idle" /\ currentServer # 0 /\ currentProxy # 0
            /\ ~ProxyRaises(currentProxy))
        => /\ constructed' = constructed
           /\ currentServer' = currentServer
           /\ currentProxy' = currentProxy
           /\ pc' = "idle"
           /\ (ret'.op = "show" /\ ret' # ret)
                => /\ ret'.path = "reuse"
                   /\ ret'.exc = "none"
                   /\ ret'.made = 0
                   /\ ret'.calls = <<"update", "show">>
                   /\ ret'.returned = currentServer
                   /\ modalOf'[currentServer] = ret'.modal]_vars

\* C4 witness: show() has reused the one server constructed so far.
C4_Witness ==
    /\ pc = "idle"
    /\ ret.op = "show"
    /\ ret.path = "reuse"
    /\ ret.returned = currentServer
    /\ currentServer # 0
    /\ constructed = 1

\* C5: from the start of a show() call made with no server registered, in
\* every state of the call and after it, currentServer and currentProxy are
\* both present or both absent.
C5_Original ==
    (Cur.op = "show" /\ Cur.path = "start" /\ Cur.stale = 0)
    => ((currentServer # 0) <=> (currentProxy # 0))

\* C6: when the callable behind the dispatch wrapper raises E, the kill is
\* attempted exactly once and E reaches the caller; when it does not raise,
\* no kill is attempted and the result is returned.
C6_Original ==
    ret.op = "dispatch" =>
        /\ ret.raised => (ret.kills = 1 /\ ret.exc = "E")
        /\ ~ret.raised => (ret.kills = 0 /\ ret.exc = "none")

\* C7: a failure of the kill (no proxy registered, or the subprocess already
\* dead) never replaces the exception of the wrapped callable.
C7_Original ==
    (ret.op = "dispatch" /\ ret.raised)
    => ret.exc \notin {"KeyError", "KillError"}

\* C8: after an install() that directly follows another install() and
\* returns, each handler is registered exactly once.
C8_Original ==
    (pc = "idle" /\ ret.op = "install" /\ ret.again /\ ret.exc = "none")
    => \A s \in Signals : callbacks[s] = 1

\* C9: after uninstall() returns, neither handler is registered and no
\* dispatch wrapper is registered.
C9_Original ==
    (pc = "idle" /\ ret.op = "uninstall" /\ ret.exc = "none")
    => ((\A s \in Signals : callbacks[s] = 0) /\ dispatchWrapper = "none")

\* What makes a host "detected" for each adapter: the importable modules and
\* the launch flags.
Detects(who, env) ==
    CASE who = "Maya" -> "maya" \in env.mods
      [] who = "Houdini" -> "hdefereval" \in env.mods
      [] who = "Nuke" -> "nuke" \in env.mods /\ env.flags = {}
      [] who = "NukeAssist" ->
            "nuke" \in env.mods /\ "--nukeassist" \in env.flags
      [] who = "Hiero" ->
            {"nuke", "hiero"} \subseteq env.mods /\ "--hiero" \in env.flags
      [] who = "NukeStudio" ->
            "nuke" \in env.mods /\ "--studio" \in env.flags

DetectedAdapters == {i \in 1..Len(Adapters) : Detects(Adapters[i], hostEnv)}

\* C10: install_host() attempts the adapters in order up to the first one
\* whose detection succeeds and no further; only that adapter registers a
\* wrapper or sets a label; ImportError never leaves install_host(), and
\* any other exception ends the chain at the adapter that raised it.
C10_FirstAdapterWins ==
    host.called =>
        /\ Len(host.wrapped) <= 1
        /\ Len(host.labelled) <= 1
        /\ host.exc # "ImportError"
        /\ IF DetectedAdapters = {}
           THEN /\ host.trace = Adapters
                /\ host.wrapped = <<>>
                /\ host.labelled = <<>>
                /\ host.exc = "none"
                /\ dispatchWrapper = host.preWrapper
                /\ ContextLabel = host.preContext
                /\ WindowTitle = host.preWindow
           ELSE LET first == CHOOSE i \in DetectedAdapters :
                                \A j \in DetectedAdapters : i <= j
                    winner == Adapters[first]
                IN  /\ host.trace = SubSeq(Adapters, 1, first)
                    /\ \A k \in 1..Len(host.wrapped) : host.wrapped[k] = winner
                    /\ \A k \in 1..Len(host.labelled) :
                            host.labelled[k] = winner
                    /\ host.exc = "none"
                        => /\ host.wrapped = <<winner>>
                           /\ dispatchWrapper = winner
                           /\ ContextLabel =
                                IF host.preContext = "Default" THEN winner
                                ELSE host.preContext
                           /\ WindowTitle =
                                IF host.preWindow = "Default" THEN winner
                                ELSE host.preWindow

\* C10 witness: Maya and Houdini are both detectable and only Maya, the
\* first in the order, was attempted and installed.
C10_Witness ==
    /\ host.called
    /\ {"maya", "hdefereval"} \subseteq hostEnv.mods
    /\ host.exc = "none"
    /\ host.trace = <<"Maya">>
    /\ host.wrapped = <<"Maya">>
    /\ dispatchWrapper = "Maya"
    /\ ContextLabel = "Maya"

\* C11: register_dispatch_wrapper called with a wrapper whose signature is
\* not one positional parameter plus *args plus **kwargs raises the
\* signature-mismatch TypeError and leaves the dispatchWrapper entry as it
\* was; with the exact signature it returns and the entry is the wrapper.
C11_MismatchRejected ==
    [][(ret'.op = "register" /\ ret' # ret)
        => IF ret'.sig = ThreadedSig
           THEN ret'.exc = "none" /\ dispatchWrapper' = "user"
           ELSE /\ ret'.exc = "TypeError"
                /\ dispatchWrapper' = dispatchWrapper
                /\ UNCHANGED <<installed, currentServer, currentProxy,
                               vesselParent, callbacks>>]_vars

\* C11 witness: a wrapper with one positional parameter and *args but no
\* **kwargs was rejected while the Maya adapter's wrapper stays registered.
C11_Witness ==
    /\ ret.op = "register"
    /\ ret.exc = "TypeError"
    /\ ret.sig = [args |-> 1, varargs |-> TRUE, keywords |-> FALSE]
    /\ dispatchWrapper = "Maya"

\* C12: a publish() or validate() made while no server is registered calls
\* no Proxy method, constructs no Server, leaves the registry, the callback
\* registry, the overlays and the subprocesses as they are, and returns
\* without raising.
C12_NoServerNoOp ==
    [][(pc = "idle" /\ currentServer = 0
            /\ ret'.op \in {"publish", "validate"} /\ ret' # ret)
        => /\ ret'.calls = <<>>
           /\ ret'.delegated = "none"
           /\ ret'.exc = "none"
           /\ ret'.made = 0
           /\ ret'.stale = 0
           /\ UNCHANGED <<installed, currentServer, currentProxy,
                          dispatchWrapper, vesselParent, callbacks,
                          shownCallbacks, splashOpen, ContextLabel,
                          WindowTitle, constructed, alive, modalOf, pc>>]_vars

\* C12 witness: validate() ran with no server registered while an earlier
\* session's proxy was still in the registry, and called nothing.
C12_Witness ==
    /\ pc = "idle"
    /\ ret.op = "validate"
    /\ ret.calls = <<>>
    /\ ret.stale = 0
    /\ ret.exc = "none"
    /\ currentServer = 0
    /\ currentProxy # 0

\* C13: when a show() that starts a new session fails to construct the
\* Service, the Server or the Proxy, it calls on_shown itself, returns
\* without raising and without a server, and leaves no server registered
\* and no overlay of its own open.
C13_Original ==
    (pc = "idle" /\ ret.op = "show" /\ ret.path = "start"
        /\ (ret.made = 0 \/ ret.exc = "ProxyError"))
    => /\ ret.shown
       /\ ret.exc = "none"
       /\ ret.returned = 0
       /\ ret.overlay = 0
       /\ currentServer = 0

\* C14: _on_application_quit never raises: with no server registered it
\* does nothing and returns; with a server registered it calls popen.kill
\* once, after which that subprocess is not running, and an OSError from
\* killing a subprocess that is already gone is swallowed.  The registry is
\* left as it was.
C14_QuitHookBenign ==
    [][(ret'.op = "quit" /\ ret' # ret)
        => /\ ret'.exc = "none"
           /\ IF currentServer = 0
              THEN ret'.kills = 0 /\ alive' = alive
              ELSE /\ ret'.kills = 1
                   /\ currentServer \notin alive'
                   /\ alive' = alive \ {currentServer}
           /\ UNCHANGED <<installed, currentServer, currentProxy,
                          dispatchWrapper, callbacks>>]_vars

\* C14 witness: the hook ran with a registered server whose subprocess was
\* already gone, popen.kill raised OSError, and the hook returned.
C14_Witness ==
    /\ ret.op = "quit"
    /\ ret.delegated = "OSError"
    /\ ret.kills = 1
    /\ ret.exc = "none"
    /\ currentServer # 0

\* C15: in a show() that starts a session the Server is constructed first
\* and is not yet registered while proxy.show is in flight; listen() is
\* entered only from there and with the new server and its proxy stored, and
\* they stay the registered pair for as long as listen() blocks; show()
\* returns the server only out of listen(), with the server still registered.
C15_SessionOrder ==
    [][/\ pc' = "showing"
            => /\ pc \in {"idle", "showing"}
               /\ call'.made # 0
               /\ call'.made <= constructed'
               /\ currentServer' # call'.made
       /\ pc' = "listening"
            => /\ pc \in {"showing", "listening"}
               /\ call'.made # 0
               /\ currentServer' = call'.made
               /\ currentProxy' = call'.made
       /\ (ret'.op = "show" /\ ret'.path = "start" /\ ret'.returned # 0
                /\ ret' # ret)
            => /\ pc = "listening"
               /\ pc' = "idle"
               /\ ret'.returned = call.made
               /\ currentServer' = ret'.returned]_vars

\* C15 witness: a show() made with no server registered has come back out
\* of listen() with the server it constructed, which is the registered one.
C15_Witness ==
    /\ pc = "idle"
    /\ ret.op = "show"
    /\ ret.path = "start"
    /\ ret.stale = 0
    /\ ret.made # 0
    /\ ret.returned = ret.made
    /\ currentServer = ret.made
    /\ currentProxy = ret.made

\* C16: a second invocation of an overlay's on_shown, made after the first
\* closed the overlay and deregistered the callback, does not raise.
C16_Original == ret.op = "on_shown" => ret.exc = "none"

\* C17: in a headless process no show() constructs an overlay or registers
\* a 'pyblishQmlShown' callback; the modality show() resolves is the modal
\* argument whenever one is passed, whatever PYBLISH_QML_MODAL holds; and
\* the server registered while show() is in listen() and when it has
\* returned a server carries that modality.
C17_HeadlessModal ==
    /\ shownCallbacks = {}
    /\ splashOpen = {}
    /\ Cur.op = "show"
        => /\ Cur.modalArg = "True" => Cur.modal
           /\ Cur.modalArg = "False" => ~Cur.modal
           /\ Cur.overlay = 0
           /\ Cur.path = "start" => Cur.headless
           /\ pc = "listening"
                => (currentServer = Cur.made
                    /\ modalOf[currentServer] = Cur.modal)
           /\ (pc = "idle" /\ Cur.returned # 0)
                => (currentServer = Cur.returned
                    /\ modalOf[currentServer] = Cur.modal)

\* C17 witness: show(modal=True) in a headless process started a session
\* and returned its server, which is registered with modal true, and there
\* is no overlay.
C17_Witness ==
    /\ pc = "idle"
    /\ ret.op = "show"
    /\ ret.modalArg = "True"
    /\ ret.headless
    /\ ret.path = "start"
    /\ ret.overlay = 0
    /\ ret.returned = ret.made
    /\ currentServer = ret.made
    /\ currentServer # 0
    /\ modalOf[currentServer]
    /\ splashOpen = {}
    /\ shownCallbacks = {}

\* C18: whenever install(), uninstall() or show() has returned, installed is
\* true if and only if each of the two handlers is registered exactly once.
C18_Original ==
    (pc = "idle" /\ ret.op \in {"install", "uninstall", "show"}
        /\ ret.exc = "none")
    => (installed <=> \A s \in Signals : callbacks[s] = 1)

\* C19: after an install() that directly follows another install(), whether
\* either of them raised or returned, each of the two handlers is registered
\* at most once.
C19_Original ==
    (pc = "idle" /\ ret.op = "install" /\ ret.again)
    => \A s \in Signals : callbacks[s] <= 1

\* C20: when show() has exited, normally or by exception, a Server it
\* constructed whose subprocess is still running is the registered server,
\* and when the Server it constructed is not registered, the overlay the
\* call constructed is not open and its on_shown is not registered.
C20_Original ==
    (pc = "idle" /\ ret.op = "show" /\ ret.made # 0)
    => /\ ret.made \in alive => currentServer = ret.made
       /\ (currentServer # ret.made /\ ret.overlay # 0)
            => ret.overlay \notin (splashOpen \cup shownCallbacks)

====
